---- MODULE Spec2Model ----
(***************************************************************************)
(* The task/item pipeline of gospider: the Spider orchestrator             *)
(* (spider.go), the status counters and the built-in extensions            *)
(* (WithDeduplicate, WithDepthLimit, WithMaxReqLimit, WithErrorLog).       *)
(*                                                                         *)
(* procs is the bag of the live goroutines: the caller's (SeedTask ...     *)
(* Wait) and the ones started by addTask and addItem; a goroutine that     *)
(* ended is no longer in it.  A step of the model takes one goroutine from *)
(* one access to state shared between goroutines to the next: the handler  *)
(* calls it makes in between touch its own Context only, and are defined   *)
(* one by one in Steps and put together in RunFrom.                        *)
(***************************************************************************)
EXTENDS Integers, Sequences, FiniteSets, Bags, TLC

(* ---------------------------- bounds ----------------------------------- *)
MaxCalls == 3       \* calls of SeedTask, Context.AddTask and Context.AddItem
NumHashes == 2      \* distinct request fingerprints

Hashes == 1..NumHashes

VARIABLES
    onTaskHandlers,       \* Spider.onTaskHandlers
    onRespHandlers,       \* Spider.onRespHandlers
    onItemHandlers,       \* Spider.onItemHandlers
    onRecoverHandlers,    \* Spider.onRecoverHandlers
    onReqErrorHandlers,   \* Spider.onReqErrorHandlers
    onRespErrorHandlers,  \* Spider.onRespErrorHandlers
    Status,               \* Spider.Status: TotalTask, FinishedTask, TotalItem
    wg,                   \* Spider.wg, the WaitGroup counter
    count,                \* the counter closed over by WithMaxReqLimit
    CrawledHash,          \* the hash set closed over by WithDeduplicate
    lock,                 \* WithDeduplicate's mutex: 0 free, 1 held
    procs,                \* the live goroutines
    crashed,              \* the process died of a panic nobody recovered
    submitted,            \* history: number of tasks handed to the OnTask chain
    vetoed,               \* history: per fingerprint and hook, tasks the hook returned nil for
    dispatched,           \* history: per fingerprint, tasks handed to addTask
    emitted,              \* history: number of items handed to addItem
    rs,                   \* the host -> policy cache closed over by WithRobotsTxt
    rsHistory,            \* history of WithRobotsTxt: fetches, overlaps, last verdict
    csvLock,              \* WithCsvItemSaver's mutex: 0 free, 1 held
    csvOut,               \* history: the calls made on WithCsvItemSaver's csv.Writer
    csvItems,             \* history: the items emitted whose payload is a CsvItem
    useArgs,              \* Use: its arguments exts, and how many the loop is through
    ClientUse,            \* Spider.Client: the middlewares registered with Client.Use
    useFault              \* Use: the panic that left it ("none": none)

chains == <<onTaskHandlers, onRespHandlers, onItemHandlers, onRecoverHandlers,
            onReqErrorHandlers, onRespErrorHandlers>>
exts == <<count, CrawledHash, lock>>
robotsVars == <<rs, rsHistory>>
csvVars == <<csvLock, csvOut, csvItems>>
useVars == <<useArgs, ClientUse, useFault>>
sinks == <<rs, rsHistory, csvLock, csvOut, csvItems, useArgs, ClientUse, useFault>>
vars == <<onTaskHandlers, onRespHandlers, onItemHandlers, onRecoverHandlers,
          onReqErrorHandlers, onRespErrorHandlers, Status, wg, count,
          CrawledHash, lock, procs, crashed, submitted, vetoed, dispatched,
          emitted, rs, rsHistory, csvLock, csvOut, csvItems, useArgs, ClientUse,
          useFault>>

(* ---------------------------- data model ------------------------------- *)
\* A request: its pre-existing error, its fingerprint (GetRequestHash) and the
\* "depth" value of its context (0: no value).
Request(err, hash) ==
    [Err |-> err, hash |-> hash, depth |-> 0, host |-> "a", path |-> "open"]
NoReq == [Err |-> FALSE, hash |-> 0, depth |-> 0, host |-> "none", path |-> "none"]

\* The hosts requests go to, and their paths: one that the host's robots.txt
\* leaves open to the spider's user agent and one that it disallows.
Hosts == {"a", "b"}
Paths == {"open", "closed"}
\* The requests the caller's code builds: a sound one of every fingerprint,
\* and one that carries an error.  Only WithDeduplicate reads a fingerprint,
\* so without it one fingerprint stands for all.
Requests ==
    LET dedup == \E j \in DOMAIN onTaskHandlers :
                    onTaskHandlers[j].hook = "dedup"
    IN {Request(FALSE, h) : h \in (IF dedup THEN Hashes ELSE {1})}
       \cup {Request(TRUE, 1)}

\* The requests built for a spider with WithRobotsTxt, the only extension
\* that reads the host and the path.
RobotsRequests ==
    {[Request(FALSE, 1) EXCEPT !.host = h, !.path = pa] : h \in Hosts, pa \in Paths}

\* The requests the caller's code and handlers submit.
Submittable ==
    IF \E j \in DOMAIN onTaskHandlers : onTaskHandlers[j].hook = "robots"
    THEN RobotsRequests ELSE Requests

\* The position of a goroutine inside Context.AddTask / Context.AddItem.
NoSub == [st |-> "idle", Req |-> NoReq, j |-> 0, Data |-> "none"]

\* A goroutine and the Context it works on.  calls lists the handler calls
\* made for the Context so far, abortAt and fault how many had been made when
\* the abort flag was set and when a handler panicked (0: never); given and
\* results list the data the OnItem handlers were called with and returned.
NoUnit == [kind |-> "none", pc |-> "none", Req |-> NoReq, hasReq |-> FALSE,
           Resp |-> "nil", abort |-> FALSE, Data |-> "none", i |-> 0,
           sub |-> NoSub, calls |-> <<>>, abortAt |-> 0, fault |-> 0,
           given |-> <<>>, results |-> <<>>]

\* The caller's goroutine; its Context is the one SeedTask builds (Req: nil).
MainUnit == [NoUnit EXCEPT !.kind = "main", !.pc = "seed"]

\* Task.Handlers: every task is given two handlers of its own, the caller's
\* code.
TaskHandlers == <<"user", "user">>

\* go func() { defer s.wg.Done(); s.handleTask(t) }(): ctx.Req is t.Req
NewTaskUnit(req) ==
    [NoUnit EXCEPT !.kind = "task", !.pc = "start", !.Req = req, !.hasReq = TRUE]

\* go func() { defer s.wg.Done(); s.handleOnItem(i) }(): Item{Ctx, Data}, the
\* Context being the emitting goroutine's.
NewItemUnit(p, data) ==
    [NoUnit EXCEPT !.kind = "item", !.pc = "item", !.hasReq = p.hasReq,
                   !.Resp = p.Resp, !.Data = data, !.i = 1]

\* The bag of goroutines after p became q / p ended / p became q and started n.
Put(p, q) == (procs (-) SetToBag({p})) (+) SetToBag({q})
Drop(p) == procs (-) SetToBag({p})
PutAndGo(p, q, n) == Put(p, q) (+) SetToBag({n})
Live == BagToSet(procs)

(* ---------------------------- SpiderStatus ----------------------------- *)
NewSpiderStatus == [TotalTask |-> 0, FinishedTask |-> 0, TotalItem |-> 0]

AddTask(s) == [s EXCEPT !.TotalTask = @ + 1]

\* atomic.AddInt64(&s.TotalTask, 1): the item counter is not the one touched
AddItem(s) == [s EXCEPT !.TotalTask = @ + 1]

FinishTaskSkipped(s) == s
FinishTask(s) == [s EXCEPT !.FinishedTask = @ + 1]

(* ---------------------------- extensions ------------------------------- *)
\* What is remembered of WithRobotsTxt's hook: its last verdict, which is
\* where the policy r came from, the path asked for and whether the hook
\* answered nil.
NoRobotsHistory == [last |-> [source |-> "none", path |-> "none", nil |-> FALSE]]

NoChains == [onTask |-> <<>>, onResp |-> <<>>, onItem |-> <<>>,
             onRecover |-> <<>>, onReqError |-> <<>>, onRespError |-> <<>>]

Hook(name, max) == [hook |-> name, max |-> max]

WithDeduplicate(s) == [s EXCEPT !.onTask = Append(@, Hook("dedup", 0))]
WithDepthLimit(max, s) == [s EXCEPT !.onTask = Append(@, Hook("depth", max))]
WithMaxReqLimit(max, s) == [s EXCEPT !.onTask = Append(@, Hook("maxreq", max))]
WithRobotsTxt(s) == [s EXCEPT !.onTask = Append(@, Hook("robots", 0))]
WithCsvItemSaver(s) == [s EXCEPT !.onItem = Append(@, "csv")]
WithErrorLog(s) ==
    [s EXCEPT !.onItem = Append(@, "errlog"), !.onRecover = Append(@, "errlog"),
              !.onReqError = Append(@, "errlog"), !.onRespError = Append(@, "errlog")]

\* A caller's func(s *Spider): two OnResp handlers and one handler on each of
\* the other chains, all of them the caller's code.
UserExt(s) ==
    [s EXCEPT !.onResp = @ \o <<"user", "user">>, !.onItem = Append(@, "user"),
              !.onRecover = Append(@, "user"), !.onReqError = Append(@, "user"),
              !.onRespError = Append(@, "user")]

Ext(name, max) == [ext |-> name, max |-> max]

ApplyExt(e, s) ==
    CASE e.ext = "WithDeduplicate" -> WithDeduplicate(s)
      [] e.ext = "WithDepthLimit" -> WithDepthLimit(e.max, s)
      [] e.ext = "WithMaxReqLimit" -> WithMaxReqLimit(e.max, s)
      [] e.ext = "WithErrorLog" -> WithErrorLog(s)
      [] e.ext = "WithRobotsTxt" -> WithRobotsTxt(s)
      [] e.ext = "WithCsvItemSaver" -> WithCsvItemSaver(s)
      [] e.ext = "func" -> UserExt(s)

RECURSIVE Use(_, _)
Use(s, es) ==
    IF es = <<>> THEN s ELSE Use(ApplyExt(Head(es), s), Tail(es))

\* The extension lists NewSpider is given.  A cap or a depth limit of
\* MaxCalls or more never vetoes one of MaxCalls tasks.
ExtLists ==
    {<<Ext("func", 0), Ext("WithMaxReqLimit", m)>> : m \in 1..(MaxCalls - 1)}
    \cup {<<Ext("func", 0), Ext("WithDeduplicate", 0)>>}
    \cup {<<Ext("func", 0), Ext("WithDepthLimit", d)>> : d \in 0..(MaxCalls - 1)}
    \cup {<<Ext("func", 0), Ext("WithErrorLog", 0)>>}
    \cup {<<Ext("func", 0), Ext("WithMaxReqLimit", MaxCalls - 1),
            Ext("WithDepthLimit", 1)>>}

\* Use has not been called, or is through exts.
NoArgs == [exts |-> <<>>, k |-> 0]

\* The state of a spider whose chains are those of s, Use being at args.
Constructed(s, args) ==
    /\ onTaskHandlers = s.onTask
    /\ onRespHandlers = s.onResp
    /\ onItemHandlers = s.onItem
    /\ onRecoverHandlers = s.onRecover
    /\ onReqErrorHandlers = s.onReqError
    /\ onRespErrorHandlers = s.onRespError
    /\ Status = NewSpiderStatus
    /\ wg = 0
    /\ count = 0
    /\ CrawledHash = {}
    /\ lock = 0
    /\ procs = SetToBag({MainUnit})
    /\ crashed = FALSE
    /\ submitted = 0
    /\ vetoed = [h \in Hashes |-> [j \in DOMAIN onTaskHandlers |-> 0]]
    /\ dispatched = [h \in Hashes |-> 0]
    /\ emitted = 0
    /\ rs = {}
    /\ rsHistory = NoRobotsHistory
    /\ csvLock = 0
    /\ csvOut = <<>>
    /\ csvItems = 0
    /\ useArgs = args
    /\ ClientUse = <<>>
    /\ useFault = "none"

\* The state NewSpider(es...) returns in.
NewSpider(es) == Constructed(Use(NoChains, es), NoArgs)

Init == \E es \in ExtLists : NewSpider(es)

(* ---------------------------- helpers ---------------------------------- *)
\* p is at pc in its own code (not inside Context.AddTask / Context.AddItem).
At(p, pc) ==
    /\ ~crashed
    /\ p.pc = pc
    /\ p.sub.st = "idle"

\* p is inside Context.AddTask / Context.AddItem, at step st.
InSub(p, st) ==
    /\ ~crashed
    /\ p.sub.st = st

Log(p, chain) == [p EXCEPT !.calls = Append(@, <<chain, p.i>>)]
\* fn(...) is called: for an OnItem handler, with i.Data
Called(p, chain) ==
    IF chain = "OnItem" THEN [Log(p, chain) EXCEPT !.given = Append(@, p.Data)]
    ELSE Log(p, chain)
\* fn(...) returned: for an OnItem handler, the value that becomes i.Data
Return(p) ==
    IF p.pc = "item" THEN [p EXCEPT !.i = @ + 1, !.results = Append(@, p.Data)]
    ELSE [p EXCEPT !.i = @ + 1]
\* The data an OnItem handler of the caller makes of the data it is given.
Mapped(d) == IF d = "val" THEN "err" ELSE "val"
\* Context.Abort
Abort(p) == [p EXCEPT !.abort = TRUE, !.abortAt = Len(p.calls)]
\* Context.IsAborted
IsAborted(p) == p.abort

\* panic(...): inside handleTask / handleOnItem the deferred func recovers it
\* and calls handleOnError; inside handleOnError it is raised in the deferred
\* func itself and leaves the goroutine.
Panic(p) ==
    IF p.pc = "recover" THEN [p EXCEPT !.pc = "unwind"]
    ELSE [p EXCEPT !.pc = "recover", !.i = 1, !.fault = Len(p.calls)]

\* What the caller's handlers may do when called.
RespBehaviours == {"ret", "abort", "panic", "addTask", "addItem"}
ErrBehaviours == {"ret", "panic", "addItem"}
RecoverBehaviours == {"ret"}
ItemBehaviours == {"ret", "map", "nil", "panic"}
ItemData == {"err", "val"}

\* The payloads handlers emit: with WithCsvItemSaver registered, also a CsvItem.
Emittable ==
    IF \E k \in DOMAIN onItemHandlers : onItemHandlers[k] = "csv"
    THEN ItemData \cup {"csv"} ELSE ItemData

\* The steps of WithCsvItemSaver's handler on the writer it shares.
CsvSteps == {"csvLock", "csvWrite", "csvFlush"}

\* WithErrorLog's send: ctx.Req.URL and ctx.Resp.Err are read before the
\* ctx.Resp != nil test.
send(p) == IF ~p.hasReq \/ p.Resp = "nil" THEN "panic" ELSE "ok"

(* ---------------------------- the OnTask chain ------------------------- *)
\* The first step of OnTask hook j, or of addTask when the chain is over.
HookEntry(j) ==
    IF j > Len(onTaskHandlers) THEN "go"
    ELSE CASE onTaskHandlers[j].hook = "dedup" -> "dedupLock"
           [] onTaskHandlers[j].hook = "maxreq" -> "capCheck"
           [] onTaskHandlers[j].hook = "depth" -> "depth"
           [] onTaskHandlers[j].hook = "robots" -> "robotsLookup"

\* t = fn(ctx, t), fn being OnTask hook j; past the last hook, nothing.
CallHook(calls, j) ==
    IF j <= Len(onTaskHandlers) THEN Append(calls, <<"OnTask", j>>) ELSE calls

\* Context.AddTask: NewTask, then Spider.handleOnTask, then Spider.addTask.
ContextAddTask(p, req) ==
    [p EXCEPT !.sub = [st |-> HookEntry(1), Req |-> req, j |-> 1, Data |-> "none"],
              !.calls = CallHook(Append(@, <<"AddTask", 0>>), 1)]

\* Context.AddItem: Spider.addItem(&Item{Ctx: c, Data: i}).
ContextAddItem(p, data) ==
    [p EXCEPT !.sub = [st |-> "itemGo", Req |-> NoReq, j |-> 0, Data |-> data]]

\* handleOnTask: hook j returned the task t (with request req); on to hook j + 1.
handleOnTaskNext(p, req) ==
    [p EXCEPT !.sub = [st |-> HookEntry(p.sub.j + 1), Req |-> req,
                       j |-> p.sub.j + 1, Data |-> "none"],
              !.calls = CallHook(@, p.sub.j + 1)]

handleOnTaskIgnoresNil(p) ==
    handleOnTaskNext([p EXCEPT !.calls = Append(@, <<"nil", p.sub.j>>)], p.sub.Req)
\* handleOnTask: a hook returned nil; Context.AddTask returns.
handleOnTaskVeto(p) ==
    [p EXCEPT !.sub = NoSub, !.calls = Append(@, <<"nil", p.sub.j>>)]



(* ---------------------------- handler calls ---------------------------- *)
\* if data, ok := i.(CsvItem); ok
CsvSaves(d) == d = "csv"

\* fn(ctx) / fn(ctx, err) / fn(ctx, data), fn being handler p.i of the chain
\* named chain: the goroutine after the call, for everything the handler may
\* do.  kind says whose code the handler is, behaviours what the caller's
\* code may do there.
Invoke(p0, chain, kind, behaviours) ==
    LET p == Called(p0, chain) IN
    IF kind = "errlog"
    THEN {IF (chain = "OnItem" => p.Data = "err") /\ send(p) = "panic"
          THEN Panic(p) ELSE Return(p)}
    ELSE IF kind = "csv"
    THEN {IF CsvSaves(p.Data) THEN [p EXCEPT !.sub.st = "csvLock"] ELSE Return(p)}
    ELSE {Return(p) : b \in behaviours \cap {"ret"}}
         \cup {Return(Abort(p)) : b \in behaviours \cap {"abort"}}
         \cup {Panic(p) : b \in behaviours \cap {"panic"}}
         \cup {Return([p EXCEPT !.Data = "nil"]) : b \in behaviours \cap {"nil"}}
         \cup {Return([p EXCEPT !.Data = Mapped(@)]) : b \in behaviours \cap {"map"}}
         \cup {ContextAddTask(Return(p), req) :
                 req \in IF "addTask" \in behaviours /\ submitted + emitted < MaxCalls
                         THEN Submittable ELSE {}}
         \cup {ContextAddItem(Return(p), d) :
                 d \in IF "addItem" \in behaviours /\ submitted + emitted < MaxCalls
                       THEN Emittable ELSE {}}

handleOnRespNeverStops(p) == p.i <= Len(onRespHandlers)
\* handleOnResp: the loop goes on to handler p.i unless ctx.IsAborted()
handleOnRespContinues(p) == p.i <= Len(onRespHandlers) /\ ~IsAborted(p)

\* s.handleOnResp(ctx); if ctx.IsAborted() { return }
AfterOnResp(p) == IF IsAborted(p) THEN "ret" ELSE "handlers"

\* for _, fn := range t.Handlers { fn(ctx); if ctx.IsAborted() { return } }
HandlersContinue(p) == p.i <= Len(TaskHandlers) /\ ~IsAborted(p)

OnItemNeverStops(p) == p.i <= Len(onItemHandlers)
\* for _, fn := range s.onItemHandlers { i.Data = fn(...); if i.Data == nil { return } }
OnItemContinues(p) == p.i <= Len(onItemHandlers) /\ p.Data # "nil"

\* One turn of the loop over a chain: the call of handler p.i when there is
\* more to do, else what follows the loop.
Turn(p, more, chain, kind, behaviours, after) ==
    IF more THEN Invoke(p, chain, kind, behaviours)
    ELSE {[p EXCEPT !.pc = after, !.i = 1]}

AfterDoIgnoresErr(resp) == "onResp"
AfterDoSkipsOnResp(resp) == IF resp = "err" THEN "onRespError" ELSE "handlers"
\* ctx.Resp = s.Client.Do(t.Req); if ctx.Resp.Err != nil { handleOnRespError; return }
AfterDo(resp) == IF resp = "err" THEN "onRespError" ELSE "onResp"

\* One step of handleTask / handleOnItem on the goroutine's own Context: the
\* goroutine after it, for every outcome of the fetch and of the handler called.
Steps(p) ==
    CASE p.pc = "handleTask" ->
           IF p.Req.Err
           THEN {[p EXCEPT !.pc = "onReqError", !.i = 1]}
           ELSE {[p EXCEPT !.Resp = r, !.i = 1,
                           !.calls = Append(@, <<"Do", 1>>),
                           !.pc = AfterDo(r)]
                 : r \in {"ok", "err"}}
      [] p.pc = "onReqError" ->
           Turn(p, p.i <= Len(onReqErrorHandlers), "OnReqError",
                onReqErrorHandlers[p.i], ErrBehaviours, "ret")
      [] p.pc = "onRespError" ->
           Turn(p, p.i <= Len(onRespErrorHandlers), "OnRespError",
                onRespErrorHandlers[p.i], ErrBehaviours, "ret")
      [] p.pc = "onResp" ->
           Turn(p, handleOnRespContinues(p), "OnResp", onRespHandlers[p.i],
                RespBehaviours, AfterOnResp(p))
      [] p.pc = "handlers" ->
           Turn(p, HandlersContinue(p), "Handler", TaskHandlers[p.i],
                RespBehaviours, "ret")
      [] p.pc = "item" ->
           Turn(p, OnItemContinues(p), "OnItem", onItemHandlers[p.i],
                ItemBehaviours, "ret")
      [] p.pc = "recover" ->
           Turn(p, p.i <= Len(onRecoverHandlers), "OnRecover",
                onRecoverHandlers[p.i], RecoverBehaviours, "ret")

\* The goroutine has come to a step on shared state: a call of
\* Context.AddTask / Context.AddItem, or the end of its function ("ret":
\* it returned; "unwind": a panic leaves it).
Stopped(p) ==
    \/ p.sub.st # "idle"
    \/ p.pc \in {"ret", "unwind"}

\* The goroutine at its next step on shared state, for every way its
\* handlers may run until then.
RECURSIVE RunFrom(_)
RunFrom(p) ==
    IF Stopped(p) THEN {p} ELSE UNION {RunFrom(q) : q \in Steps(p)}

wgDoneSkipped(w) == w
\* defer s.wg.Done()
wgDone(w) == w - 1

\* Goroutine p goes on as q, which is in its own code again: the caller's
\* goroutine is at its next call of SeedTask or Wait, the Context SeedTask
\* built being dropped when SeedTask returns; a goroutine of addTask
\* or addItem runs to r, its next call of Context.AddTask / Context.AddItem
\* or the end of its function.  There the deferred s.wg.Done() runs and the
\* goroutine ends; when a panic leaves the function, the runtime then ends
\* the process.
Goes(p, q) ==
    \E r \in (IF q.kind # "main" THEN RunFrom(q)
              ELSE IF q.sub.st = "idle" THEN {[q EXCEPT !.calls = <<>>]}
              ELSE {q}) :
       LET ends == r.sub.st = "idle" /\ r.kind # "main" IN
       /\ procs' = IF ends THEN Drop(p) ELSE Put(p, r)
       /\ wg' = IF ends THEN wgDone(wg) ELSE wg
       /\ crashed' = (ends /\ r.pc = "unwind")
       /\ submitted' = submitted + (IF r.sub.st \notin {"idle", "itemGo"} \cup CsvSteps
                                    THEN 1 ELSE 0)
       /\ emitted' = emitted + (IF r.sub.st = "itemGo" THEN 1 ELSE 0)

(* ---------------------------- the OnTask hooks ------------------------- *)
\* The history of a veto / of a task going on in the chain.
Vetoed(p) ==
    /\ Goes(p, handleOnTaskVeto(p))
    /\ vetoed' = [vetoed EXCEPT ![p.sub.Req.hash][p.sub.j] = @ + 1]

Passed(p, req) ==
    /\ procs' = Put(p, handleOnTaskNext(p, req))
    /\ UNCHANGED <<vetoed, wg, crashed, submitted, emitted>>

MutexFreeAlways(l) == TRUE
\* sync.Mutex: Lock() returns when nobody holds it.
MutexFree(l) == l = 0

\* has := GetRequestHash(t.Req); lock.Lock()
DedupLock(p) ==
    /\ InSub(p, "dedupLock")
    /\ MutexFree(lock)
    /\ lock' = 1
    /\ procs' = Put(p, [p EXCEPT !.sub.st = "dedupLookup"])
    /\ UNCHANGED <<chains, Status, wg, count, CrawledHash, crashed, submitted,
                   vetoed, dispatched, emitted>>
    /\ UNCHANGED sinks

\* _, ok := CrawledHash[has]; return nil when ok (the deferred Unlock runs).
DedupLookup(p) ==
    /\ InSub(p, "dedupLookup")
    /\ IF p.sub.Req.hash \in CrawledHash
       THEN Vetoed(p) /\ lock' = 0
       ELSE /\ procs' = Put(p, [p EXCEPT !.sub.st = "dedupStore"])
            /\ UNCHANGED <<vetoed, lock, wg, crashed, submitted, emitted>>
    /\ UNCHANGED <<chains, Status, count, CrawledHash, dispatched>>
    /\ UNCHANGED sinks

\* CrawledHash[has] = struct{}{}; return t (the deferred Unlock runs).
DedupStore(p) ==
    /\ InSub(p, "dedupStore")
    /\ CrawledHash' = CrawledHash \cup {p.sub.Req.hash}
    /\ lock' = 0
    /\ Passed(p, p.sub.Req)
    /\ UNCHANGED <<chains, Status, count, dispatched>>
    /\ UNCHANGED sinks

\* if count < max: a plain read of count.
MaxReqCheck(p) ==
    /\ InSub(p, "capCheck")
    /\ IF count < onTaskHandlers[p.sub.j].max
       THEN /\ procs' = Put(p, [p EXCEPT !.sub.st = "capAdd"])
            /\ UNCHANGED <<vetoed, wg, crashed, submitted, emitted>>
       ELSE Vetoed(p)
    /\ UNCHANGED <<chains, Status, exts, dispatched>>
    /\ UNCHANGED sinks

AddInt64Lost(c, delta) == c
\* atomic.AddInt64(&c, delta)
AddInt64(c, delta) == c + delta

\* atomic.AddInt64(&count, 1); return t
MaxReqAdd(p) ==
    /\ InSub(p, "capAdd")
    /\ count' = AddInt64(count, 1)
    /\ Passed(p, p.sub.Req)
    /\ UNCHANGED <<chains, Status, CrawledHash, lock, dispatched>>
    /\ UNCHANGED sinks

(* ---------------------------- Use ------------------------------------- *)
\* The dynamic types of the values Use is given.
FuncSpider == "func(s *Spider)"
MiddlewareFunc == "func(*goreq.Client, goreq.Handler) goreq.Handler"
Shapes == {FuncSpider, "Extension", "goreq.Middleware", MiddlewareFunc, "string"}

\* A value of dynamic type shape: for a func(s *Spider) or an Extension, the
\* extension it is.
Arg(shape, name) == [shape |-> shape, ext |-> name, max |-> 0]
Args ==
    {Arg(FuncSpider, "func"), Arg("Extension", "WithDeduplicate"),
     Arg("Extension", "WithErrorLog"), Arg("goreq.Middleware", "none"),
     Arg(MiddlewareFunc, "none"), Arg("string", "none")}

\* The argument lists of up to MaxCalls values.
RECURSIVE ArgLists(_)
ArgLists(n) ==
    IF n = 0 THEN {<<>>}
    ELSE ArgLists(n - 1)
         \cup {Append(l, a) : l \in {m \in ArgLists(n - 1) : Len(m) = n - 1}, a \in Args}

\* The chains of the spider.
Chains ==
    [onTask |-> onTaskHandlers, onResp |-> onRespHandlers, onItem |-> onItemHandlers,
     onRecover |-> onRecoverHandlers, onReqError |-> onReqErrorHandlers,
     onRespError |-> onRespErrorHandlers]

\* fn(s) has registered its handlers: the chains become those of s.
Registers(s) ==
    /\ onTaskHandlers' = s.onTask
    /\ onRespHandlers' = s.onResp
    /\ onItemHandlers' = s.onItem
    /\ onRecoverHandlers' = s.onRecover
    /\ onReqErrorHandlers' = s.onReqError
    /\ onRespErrorHandlers' = s.onRespError

\* Use is at fn, a value of the given shape.
UseAt(shapes) ==
    /\ useFault = "none"
    /\ useArgs.k < Len(useArgs.exts)
    /\ useArgs.exts[useArgs.k + 1].shape \in shapes

fn == useArgs.exts[useArgs.k + 1]
UseGoesOn == useArgs' = [useArgs EXCEPT !.k = @ + 1]
UseRest == <<Status, wg, exts, procs, crashed, submitted, vetoed, dispatched, emitted,
             robotsVars, csvVars>>

\* fn.(T), T not an interface type: fn's dynamic type is T, or a
\* runtime.TypeAssertionError panic.
TypeAssert(shape, type) == shape = type

\* case func(s *Spider): fn.(func(s *Spider))(s)
UseFunc ==
    /\ UseAt({FuncSpider})
    /\ Registers(ApplyExt(fn, Chains))
    /\ UseGoesOn
    /\ UNCHANGED <<UseRest, ClientUse, useFault>>

\* case Extension: fn.(Extension)(s)
UseExtension ==
    /\ UseAt({"Extension"})
    /\ Registers(ApplyExt(fn, Chains))
    /\ UseGoesOn
    /\ UNCHANGED <<UseRest, ClientUse, useFault>>

\* case goreq.Middleware, func(*goreq.Client, goreq.Handler) goreq.Handler:
\*     s.Client.Use(fn.(goreq.Middleware))
UseMiddleware ==
    /\ UseAt({"goreq.Middleware", MiddlewareFunc})
    /\ IF TypeAssert(fn.shape, "goreq.Middleware")
       THEN /\ ClientUse' = Append(ClientUse, useArgs.k + 1)
            /\ UseGoesOn
            /\ UNCHANGED useFault
       ELSE /\ useFault' = "TypeAssertionError"
            /\ UNCHANGED <<ClientUse, useArgs>>
    /\ UNCHANGED <<UseRest, chains>>

\* default: panic(UnknownExt)
UseDefault ==
    /\ UseAt(Shapes \ {FuncSpider, "Extension", "goreq.Middleware", MiddlewareFunc})
    /\ useFault' = "UnknownExt"
    /\ UNCHANGED <<UseRest, chains, ClientUse, useArgs>>

(* ---------------------------- WithRobotsTxt ---------------------------- *)
RobotsVetoFailClosed(source, path) == path = "closed"
\* if r != nil { if !r.Allow(t.Req.URL.Path) { return nil } }; return t.
\* r is nil when the host's robots.txt could not be had (source "failed").
RobotsVeto(source, path) == source # "failed" /\ path = "closed"

\* The units that are between the lookup of host h in rs and its store.
Fetching(h) ==
    {q \in Live : q.sub.st \in {"robotsGet", "robotsStore"} /\ q.sub.Req.host = h}

\* The end of the hook: r came from the cache, from a fetch or from nowhere.
RobotsDecide(p, source) ==
    LET req == p.sub.Req
        nil == RobotsVeto(source, req.path) IN
    /\ rsHistory' = [rsHistory EXCEPT !.last = [source |-> source, path |-> req.path,
                                                nil |-> nil]]
    /\ IF nil THEN Vetoed(p) ELSE Passed(p, req)

\* a, ok := rs[t.Req.URL.Host]: a plain read of the map.
RobotsLookup(p) ==
    /\ InSub(p, "robotsLookup")
    /\ IF p.sub.Req.host \in rs
       THEN RobotsDecide(p, "cached")
       ELSE /\ procs' = Put(p, [p EXCEPT !.sub.st = "robotsGet"])
            /\ UNCHANGED <<rsHistory, vetoed, wg, crashed, submitted, emitted>>
    /\ UNCHANGED <<chains, Status, exts, dispatched, rs, csvVars, useVars>>

\* t.Req.URL.Parse("/robots.txt"); goreq.Get(u.String()).Do().Resp():
\* err == nil && resp.StatusCode == 200, or not.
RobotsGet(p) ==
    /\ InSub(p, "robotsGet")
    /\ \E code \in {"200", "other"} :
          IF code = "200"
          THEN /\ procs' = Put(p, [p EXCEPT !.sub.st = "robotsStore"])
               /\ UNCHANGED <<rsHistory, vetoed, wg, crashed, submitted, emitted>>
          ELSE RobotsDecide(p, "failed")
    /\ UNCHANGED <<chains, Status, exts, dispatched, rs, csvVars, useVars>>

\* r = robots.New(...); rs[t.Req.URL.Host] = r: a plain write of the map.
RobotsStore(p) ==
    /\ InSub(p, "robotsStore")
    /\ rs' = rs \cup {p.sub.Req.host}
    /\ RobotsDecide(p, "fetched")
    /\ UNCHANGED <<chains, Status, exts, dispatched, csvVars, useVars>>

\* The write of the map rs while another goroutine reads or writes it: the
\* Go runtime may end the process ("concurrent map writes").
RobotsRace(p) ==
    /\ InSub(p, "robotsStore")
    /\ \/ procs[p] > 1
       \/ \E q \in Live \ {p} : q.sub.st \in {"robotsLookup", "robotsStore"}
    /\ crashed' = TRUE
    /\ UNCHANGED <<chains, Status, exts, wg, procs, submitted, vetoed, dispatched,
                   emitted, sinks>>

(* ---------------------------- WithCsvItemSaver ------------------------- *)
\* lock.Lock(); defer lock.Unlock()
CsvLock(p) ==
    /\ InSub(p, "csvLock")
    /\ MutexFree(csvLock)
    /\ csvLock' = 1
    /\ procs' = Put(p, [p EXCEPT !.sub.st = "csvWrite"])
    /\ UNCHANGED <<chains, Status, exts, wg, crashed, submitted, vetoed, dispatched,
                   emitted, robotsVars, csvOut, csvItems, useVars>>

\* err := w.Write(data); an error is logged and nothing else
CsvWrite(p) ==
    /\ InSub(p, "csvWrite")
    /\ csvOut' = Append(csvOut, "Write")
    /\ procs' = Put(p, [p EXCEPT !.sub.st = "csvFlush"])
    /\ UNCHANGED <<chains, Status, exts, wg, crashed, submitted, vetoed, dispatched,
                   emitted, robotsVars, csvLock, csvItems, useVars>>

\* w.Flush(); return i (the deferred Unlock runs), and handleOnItem goes on
CsvFlush(p) ==
    /\ InSub(p, "csvFlush")
    /\ csvOut' = Append(csvOut, "Flush")
    /\ csvLock' = 0
    /\ Goes(p, Return([p EXCEPT !.sub = NoSub]))
    /\ UNCHANGED <<chains, Status, exts, vetoed, dispatched, robotsVars, csvItems,
                   useVars>>

(* ---------------------------- WithDepthLimit --------------------------- *)
DepthAllowedUpTo(depth, max) == depth <= max
\* if depth < max
DepthAllowed(depth, max) == depth < max

\* The hook of WithDepthLimit(max), called with the originating Context p
\* and the request of the new task: the request it returns, or nil.
DepthHook(max, p, req) ==
    IF ~p.hasReq \/ p.Req.depth = 0
    THEN [nil |-> FALSE, Req |-> [req EXCEPT !.depth = 1]]
    ELSE IF DepthAllowed(p.Req.depth, max)
         THEN [nil |-> FALSE, Req |-> [req EXCEPT !.depth = p.Req.depth + 1]]
         ELSE [nil |-> TRUE, Req |-> req]

DepthLimit(p) ==
    /\ InSub(p, "depth")
    /\ LET r == DepthHook(onTaskHandlers[p.sub.j].max, p, p.sub.Req) IN
       IF r.nil THEN Vetoed(p) ELSE Passed(p, r.Req)
    /\ UNCHANGED <<chains, Status, exts, dispatched>>
    /\ UNCHANGED sinks

(* ---------------------------- addTask / addItem ------------------------ *)
wgAddMissing(w) == w
\* s.wg.Add(1)
wgAdd(w) == w + 1

\* s.wg.Add(1); go func() { defer s.wg.Done(); s.handleTask(t) }()
AddTaskGo(p) ==
    /\ InSub(p, "go")
    /\ wg' = wgAdd(wg)
    /\ procs' = PutAndGo(p, [p EXCEPT !.sub.st = "status",
                                       !.calls = Append(@, <<"addTask", 0>>)],
                         NewTaskUnit(p.sub.Req))
    /\ dispatched' = [dispatched EXCEPT ![p.sub.Req.hash] = @ + 1]
    /\ UNCHANGED <<chains, Status, exts, crashed, submitted, vetoed, emitted>>
    /\ UNCHANGED sinks

\* s.Status.AddTask(), after the go statement
AddTaskStatus(p) ==
    /\ InSub(p, "status")
    /\ Status' = AddTask(Status)
    /\ Goes(p, [p EXCEPT !.sub = NoSub])
    /\ UNCHANGED <<chains, exts, vetoed, dispatched>>
    /\ UNCHANGED sinks

\* s.wg.Add(1); go func() { defer s.wg.Done(); s.handleOnItem(i) }()
AddItemGo(p) ==
    /\ InSub(p, "itemGo")
    /\ wg' = wgAdd(wg)
    /\ procs' = PutAndGo(p, [p EXCEPT !.sub.st = "itemStatus"],
                         NewItemUnit(p, p.sub.Data))
    /\ csvItems' = csvItems + (IF CsvSaves(p.sub.Data) THEN 1 ELSE 0)
    /\ UNCHANGED <<chains, Status, exts, crashed, submitted, vetoed, dispatched,
                   emitted>>
    /\ UNCHANGED <<robotsVars, csvLock, csvOut, useVars>>

\* s.Status.AddItem(), after the go statement
AddItemStatus(p) ==
    /\ InSub(p, "itemStatus")
    /\ Status' = AddItem(Status)
    /\ Goes(p, [p EXCEPT !.sub = NoSub])
    /\ UNCHANGED <<chains, exts, vetoed, dispatched>>
    /\ UNCHANGED sinks

(* ---------------------------- the caller ------------------------------- *)
\* SeedTask(req, h...): ctx.AddTask on a Context whose Req is nil.
SeedTask(p) ==
    /\ At(p, "seed")
    /\ submitted + emitted < MaxCalls
    /\ \E req \in Submittable : procs' = Put(p, ContextAddTask(p, req))
    /\ submitted' = submitted + 1
    /\ UNCHANGED <<chains, Status, wg, exts, crashed, vetoed, dispatched, emitted>>
    /\ UNCHANGED sinks

\* Wait: s.wg.Wait() returns when the counter is zero.
Wait(p) ==
    /\ At(p, "seed")
    /\ wg = 0
    /\ procs' = Put(p, [p EXCEPT !.pc = "waited"])
    /\ UNCHANGED <<chains, Status, wg, exts, crashed, submitted, vetoed,
                   dispatched, emitted>>
    /\ UNCHANGED sinks

(* ---------------------------- handleTask / handleOnItem ---------------- *)
\* The goroutine of addTask: handleTask from its entry,
\* s.Status.FinishTask(), to its first call of Context.AddTask /
\* Context.AddItem or to its end.
HandleTask(p) ==
    /\ At(p, "start")
    /\ Status' = FinishTask(Status)
    /\ Goes(p, [p EXCEPT !.pc = "handleTask"])
    /\ UNCHANGED <<chains, exts, vetoed, dispatched>>
    /\ UNCHANGED sinks

\* The goroutine of addItem: handleOnItem.
HandleOnItem(p) ==
    /\ At(p, "item")
    /\ Goes(p, p)
    /\ UNCHANGED <<chains, Status, exts, vetoed, dispatched>>
    /\ UNCHANGED sinks

(* ---------------------------- specification ---------------------------- *)
Next ==
    \/ \E p \in Live : SeedTask(p)
    \/ \E p \in Live : Wait(p)
    \/ \E p \in Live : DedupLock(p)
    \/ \E p \in Live : DedupLookup(p)
    \/ \E p \in Live : DedupStore(p)
    \/ \E p \in Live : MaxReqCheck(p)
    \/ \E p \in Live : MaxReqAdd(p)
    \/ \E p \in Live : DepthLimit(p)
    \/ \E p \in Live : AddTaskGo(p)
    \/ \E p \in Live : AddTaskStatus(p)
    \/ \E p \in Live : AddItemGo(p)
    \/ \E p \in Live : AddItemStatus(p)
    \/ \E p \in Live : HandleTask(p)
    \/ \E p \in Live : HandleOnItem(p)

Spec == Init /\ [][Next]_vars

\* A spider with handlers of the caller, without and with WithErrorLog.
LiveInit ==
    \E es \in {<<Ext("func", 0)>>, <<Ext("func", 0), Ext("WithErrorLog", 0)>>} :
       NewSpider(es)

LiveNext ==
    \/ \E p \in Live : SeedTask(p)
    \/ \E p \in Live : Wait(p)
    \/ \E p \in Live : AddTaskGo(p)
    \/ \E p \in Live : AddTaskStatus(p)
    \/ \E p \in Live : AddItemGo(p)
    \/ \E p \in Live : AddItemStatus(p)
    \/ \E p \in Live : HandleTask(p)
    \/ \E p \in Live : HandleOnItem(p)

\* The spider with the handlers of the caller and no OnTask hook.
HandlerSpec == LiveInit /\ [][LiveNext]_vars

\* The Go scheduler runs every goroutine that can run: a step that stays
\* possible is taken.
LiveSpec == LiveInit /\ [][LiveNext]_vars /\ WF_vars(LiveNext)

\* A spider with WithRobotsTxt.
RobotsInit == NewSpider(<<Ext("WithRobotsTxt", 0)>>)

RobotsNext ==
    \/ \E p \in Live : SeedTask(p)
    \/ \E p \in Live : Wait(p)
    \/ \E p \in Live : RobotsLookup(p)
    \/ \E p \in Live : RobotsGet(p)
    \/ \E p \in Live : RobotsStore(p)
    \/ \E p \in Live : RobotsRace(p)
    \/ \E p \in Live : AddTaskGo(p)
    \/ \E p \in Live : AddTaskStatus(p)
    \/ \E p \in Live : AddItemGo(p)
    \/ \E p \in Live : AddItemStatus(p)
    \/ \E p \in Live : HandleTask(p)
    \/ \E p \in Live : HandleOnItem(p)

RobotsSpec == RobotsInit /\ [][RobotsNext]_vars

\* A spider with WithCsvItemSaver, and handlers of the caller after it.
CsvInit == NewSpider(<<Ext("WithCsvItemSaver", 0), Ext("func", 0)>>)

CsvNext ==
    \/ \E p \in Live : SeedTask(p)
    \/ \E p \in Live : Wait(p)
    \/ \E p \in Live : AddTaskGo(p)
    \/ \E p \in Live : AddTaskStatus(p)
    \/ \E p \in Live : AddItemGo(p)
    \/ \E p \in Live : AddItemStatus(p)
    \/ \E p \in Live : HandleTask(p)
    \/ \E p \in Live : HandleOnItem(p)
    \/ \E p \in Live : CsvLock(p)
    \/ \E p \in Live : CsvWrite(p)
    \/ \E p \in Live : CsvFlush(p)

CsvSpec == CsvInit /\ [][CsvNext]_vars

\* NewSpider(e...) at its call s.Use(e...), for every list of arguments.
UseInit == \E es \in ArgLists(MaxCalls) : Constructed(NoChains, [exts |-> es, k |-> 0])

UseNext ==
    \/ UseFunc
    \/ UseExtension
    \/ UseMiddleware
    \/ UseDefault

UseSpec == UseInit /\ [][UseNext]_vars

(* ---------------------------- properties ------------------------------- *)
RECURSIVE SumTo(_, _)
SumTo(f, n) == IF n = 0 THEN 0 ELSE f[n] + SumTo(f, n - 1)

\* Tasks handed to addTask / vetoed by a hook so far, over all fingerprints.
TotalDispatched == SumTo(dispatched, NumHashes)
VetoedOf(h) == SumTo(vetoed[h], Len(onTaskHandlers))
TotalVetoed == SumTo([h \in Hashes |-> VetoedOf(h)], NumHashes)

\* The OnTask chain holds the hook of the named extension, and nothing else.
OnlyHook(name) == Len(onTaskHandlers) = 1 /\ onTaskHandlers[1].hook = name
HookMax == onTaskHandlers[1].max

\* The caller's Wait() has returned.
Waited == \E p \in Live : p.kind = "main" /\ p.pc = "waited"

\* The goroutines of addTask and addItem that have not ended.
Units == {p \in Live : p.kind # "main"}

\* Submissions that are inside the OnTask chain or addTask, with fingerprint h.
InChain(h) == {p \in Live : p.sub.st \notin {"idle", "itemGo", "itemStatus", "status"}
                                           \cup CsvSteps
                            /\ p.sub.Req.hash = h}

\* Every way goroutine p may be when it next stops: at its next call of
\* Context.AddTask / Context.AddItem or at the end of its function.
Outcomes(p) ==
    IF p.sub.st # "idle" THEN RunFrom([p EXCEPT !.sub = NoSub])
    ELSE IF p.pc = "start" THEN RunFrom([p EXCEPT !.pc = "handleTask"])
    ELSE RunFrom(p)

\* The chains of the handler calls made for r's Context after call number k.
CallsAfter(r, k) == {r.calls[n][1] : n \in (k + 1)..Len(r.calls)}

\* The handler of r's Context that set the abort flag / that panicked first.
AbortedBy(r) == IF r.abortAt = 0 THEN "none" ELSE r.calls[r.abortAt][1]
FaultBy(r) == IF r.fault = 0 THEN "none" ELSE r.calls[r.fault][1]
Ended(r) == r.sub.st = "idle"

\* The tasks started by addTask that have not entered handleTask yet.
NotEntered ==
    LET S == {p \in Units : p.pc = "start"} IN
    IF S = {} THEN 0 ELSE BagCardinality([p \in S |-> procs[p]])

\* WithDepthLimit(HookMax): no task has a depth above HookMax, and the hook
\* answers nil for a task spawned from a Context whose depth is HookMax.
DepthRespected ==
    /\ \A p \in Units : p.kind = "task" => p.Req.depth \in 1..HookMax
    /\ \A p \in Units :
         (p.sub.st = "depth" /\ p.Req.depth = HookMax)
            => DepthHook(HookMax, p, p.sub.Req).nil

(* ---------------------------- C1 --------------------------------------- *)
\* C1: with WithMaxReqLimit(max) the only OnTask hook, the number of tasks
\* admitted and dispatched never exceeds max, whatever the interleaving of
\* the submissions.
MaxReqLimitNeverExceeded ==
    OnlyHook("maxreq") => (count <= HookMax /\ TotalDispatched <= HookMax)

(* ---------------------------- C2 --------------------------------------- *)
\* C2: with WithDeduplicate registered, of the submissions of one fingerprint
\* exactly one is dispatched and every other one is vetoed: none is vetoed
\* before the fingerprint is recorded, no fingerprint is dispatched twice,
\* and once no submission of a recorded fingerprint is in the chain, one task
\* of it has been dispatched.
DeduplicateAdmitsOne ==
    OnlyHook("dedup") =>
       \A h \in Hashes :
          /\ dispatched[h] <= 1
          /\ VetoedOf(h) > 0 => h \in CrawledHash
          /\ h \notin CrawledHash => dispatched[h] = 0
          /\ (h \in CrawledHash /\ InChain(h) = {}) => dispatched[h] = 1

\* Three submissions of one fingerprint are over: one dispatched, two vetoed.
DeduplicateWitness ==
    /\ OnlyHook("dedup")
    /\ \E h \in Hashes :
          dispatched[h] = 1 /\ VetoedOf(h) = 2 /\ InChain(h) = {}

(* ---------------------------- C3 --------------------------------------- *)
\* C3, for max >= 1: with WithDepthLimit(max) registered, no task of depth
\* above max is dispatched (a seed has depth 1, a child its parent's depth
\* + 1), and every task spawned from a task of depth max is vetoed.
DepthLimitFromOne ==
    (OnlyHook("depth") /\ HookMax >= 1) => DepthRespected

\* C3 as stated, for any value of max.
DepthLimitAnyMax ==
    OnlyHook("depth") => DepthRespected

\* WithDepthLimit(2): a seed and its child were dispatched, the child's child
\* was vetoed.
DepthLimitWitness ==
    /\ OnlyHook("depth")
    /\ HookMax = 2
    /\ TotalDispatched = 2
    /\ TotalVetoed = 1

(* ---------------------------- C4 --------------------------------------- *)
\* C4: however a task's handlers run, after an OnResp handler set the abort
\* flag no OnResp handler and no per-task handler is called for that
\* Context, and after a per-task handler set it no per-task handler is; and
\* every task that entered handleTask, aborted or not, is counted in
\* FinishedTask.
AbortStopsHandlers ==
    /\ \A p \in Units : \A r \in Outcomes(p) :
          /\ AbortedBy(r) = "OnResp"
                => CallsAfter(r, r.abortAt) \cap {"OnResp", "Handler"} = {}
          /\ AbortedBy(r) = "Handler"
                => "Handler" \notin CallsAfter(r, r.abortAt)
    /\ Status.FinishedTask = TotalDispatched - NotEntered

\* A task whose first OnResp handler, of two, sets the abort flag: handleTask
\* returns with no other handler called.
AbortWitness ==
    \E p \in Units : \E r \in Outcomes(p) :
       /\ Len(onRespHandlers) = 2
       /\ r.calls = <<(<<"Do", 1>>), (<<"OnResp", 1>>)>>
       /\ AbortedBy(r) = "OnResp"
       /\ r.pc = "ret"

(* ---------------------------- C5 --------------------------------------- *)
\* C5: no fault leaves the goroutine of its task or item: handleTask and
\* handleOnItem return normally, and the process is never ended by a panic.
NoFaultEscapes ==
    /\ ~crashed
    /\ \A p \in Units : \A r \in Outcomes(p) : r.pc # "unwind"

(* ---------------------------- C6 --------------------------------------- *)
\* C6: when an OnResp handler, a per-task handler or an OnItem handler
\* panics, the calls made for that Context from then on are those of the
\* OnRecover handlers, each once, in registration order, and the goroutine
\* returns.
FaultsReachOnRecover ==
    \A p \in Units : \A r \in Outcomes(p) :
       (Ended(r) /\ FaultBy(r) \in {"OnResp", "Handler", "OnItem"})
          => /\ r.pc = "ret"
             /\ SubSeq(r.calls, r.fault + 1, Len(r.calls))
                  = [k \in 1..Len(onRecoverHandlers) |-> <<"OnRecover", k>>]

(* ---------------------------- C7 --------------------------------------- *)
\* C7: in every reachable state FinishedTask <= TotalTask and TotalItem >= 0.
FinishedWithinTotal ==
    /\ Status.FinishedTask <= Status.TotalTask
    /\ Status.TotalItem >= 0

(* ---------------------------- C8 --------------------------------------- *)
\* C8: once Wait has returned, TotalItem is the number of items emitted and
\* TotalTask the number of tasks dispatched.
ItemsCountedApart ==
    Waited => (Status.TotalItem = emitted /\ Status.TotalTask = TotalDispatched)

(* ---------------------------- C9 --------------------------------------- *)
\* C9: FinishedTask never exceeds the number of tasks dispatched, and once
\* Wait has returned it is that number: one increment for every dispatched
\* task, none for a vetoed one.
FinishedCountsDispatched ==
    /\ Status.FinishedTask <= TotalDispatched
    /\ Waited => Status.FinishedTask = TotalDispatched

\* Wait returned after two tasks were dispatched and one was vetoed.
FinishedWitness ==
    /\ Waited
    /\ TotalDispatched = 2
    /\ TotalVetoed = 1

(* ---------------------------- C10 -------------------------------------- *)
\* C10: the WaitGroup counter is the number of goroutines of addTask and
\* addItem that have not ended, so that when Wait has returned none is left,
\* those started by handlers included.
WaitIsBarrier ==
    /\ wg = BagCardinality(procs) - 1
    /\ Waited => Units = {}

\* Wait returned after two tasks were dispatched and a handler of one of them
\* emitted an item.
WaitWitness ==
    /\ Waited
    /\ TotalDispatched = 2
    /\ emitted = 1

(* ---------------------------- C11 -------------------------------------- *)
\* The number of live goroutines among those of the set S.
Count(S) == IF S = {} THEN 0 ELSE BagCardinality([p \in S |-> procs[p]])

\* The goroutines inside Context.AddTask, before the go statement of addTask.
Submitting == {p \in Live : p.sub.st \notin {"idle", "status", "itemGo", "itemStatus"}
                                           \cup CsvSteps}

\* Call number n made for p's Context, and the one before it.
CallAt(p, n) == IF n \in 1..Len(p.calls) THEN p.calls[n] ELSE <<"none", 0>>

\* The calls of one Context.AddTask follow the chain: hook 1 is called first,
\* hook j + 1 right after hook j and only when hook j returned a task, a hook
\* returns nil right after it was called, and addTask is called right after
\* the last hook was, and only when that one returned a task.
ChainFollowed(p) ==
    \A n \in 1..Len(p.calls) :
       LET c == CallAt(p, n)
           prev == CallAt(p, n - 1)
           last == IF onTaskHandlers = <<>> THEN <<"AddTask", 0>>
                   ELSE <<"OnTask", Len(onTaskHandlers)>>
       IN /\ c[1] = "OnTask" =>
               prev = (IF c[2] = 1 THEN <<"AddTask", 0>> ELSE <<"OnTask", c[2] - 1>>)
          /\ c[1] = "nil" => prev = <<"OnTask", c[2]>>
          /\ c[1] = "addTask" => prev = last
          /\ prev[1] = "nil" =>
               c[1] \notin {"OnTask", "addTask", "Do", "OnReqError", "OnRespError",
                            "OnRecover"}

\* C11: the OnTask hooks of a submission are called in registration order,
\* each after the one before it returned a task; after a hook returned nil
\* no hook and no addTask follows for that submission, and nothing is
\* fetched and no error chain is called on account of it: every submission
\* is either in the chain, vetoed by one hook, or dispatched, and only the
\* dispatched ones enter handleTask.
VetoStopsChain ==
    /\ \A p \in Live : ChainFollowed(p)
    /\ submitted = TotalDispatched + TotalVetoed + Count(Submitting)
    /\ Status.FinishedTask + NotEntered = TotalDispatched

\* WithMaxReqLimit then WithDepthLimit: one submission was vetoed by the second
\* hook and a later one by the first, and a task was dispatched.
VetoWitness ==
    /\ Len(onTaskHandlers) = 2
    /\ \E h \in Hashes : vetoed[h][2] = 1 /\ vetoed[h][1] = 1
    /\ TotalDispatched = 1
    /\ Submitting = {}

(* ---------------------------- C12 -------------------------------------- *)
\* The goroutines of addItem that have not entered handleOnItem.
Items == {p \in Units : p.kind = "item"}

\* C12: however the OnItem handlers behave, they are called in registration
\* order, the first with the data emitted and each other one with the data
\* the one before it returned; after a handler returned nil none is called;
\* and unless a handler panics, the chain stops only at its end or at a nil.
OnItemChainInOrder ==
    \A p \in Items : \A r \in Outcomes(p) :
       LET k == Len(r.given) IN
       /\ k <= Len(onItemHandlers)
       /\ \A n \in 1..k : r.calls[n] = <<"OnItem", n>>
       /\ k >= 1 => r.given[1] = p.Data
       /\ \A n \in 1..(k - 1) : r.results[n] # "nil" /\ r.given[n + 1] = r.results[n]
       /\ IF r.fault = 0
          THEN /\ Len(r.results) = k
               /\ k = Len(onItemHandlers) \/ r.results[k] = "nil"
          ELSE r.fault = k /\ Len(r.results) = k - 1

\* Of two OnItem handlers the first returns nil for an item: the second is
\* not called.
OnItemNilWitness ==
    \E p \in Items : \E r \in Outcomes(p) :
       /\ Len(onItemHandlers) = 2
       /\ r.given = <<p.Data>>
       /\ r.results = <<"nil">>
       /\ r.pc = "ret"

(* ---------------------------- C13 -------------------------------------- *)
\* The goroutines of addTask.
Tasks == {p \in Units : p.kind = "task"}

\* The calls made for r's Context that are calls of the named chain.
ChainCalls(r, chain) == SelectSeq(r.calls, LAMBDA c : c[1] = chain)
NumCalls(r, chain) == Len(ChainCalls(r, chain))

\* The handlers of the chain were called in registration order, each once,
\* from the first one on.
CalledInOrder(r, chain) ==
    ChainCalls(r, chain) = [n \in 1..NumCalls(r, chain) |-> <<chain, n>>]

\* The routing of handleTask for the run r of a task, all being whether every
\* handler of the error chain has been called when the run is over.
Routed(r, all) ==
    /\ CalledInOrder(r, "OnReqError")
    /\ CalledInOrder(r, "OnRespError")
    /\ NumCalls(r, "OnReqError") = 0 \/ NumCalls(r, "OnRespError") = 0
    /\ NumCalls(r, "addTask") = 0 \/ r.Resp = "ok"
    /\ IF r.Req.Err
       THEN /\ NumCalls(r, "Do") = 0
            /\ NumCalls(r, "OnRespError") = 0
            /\ NumCalls(r, "OnResp") = 0
            /\ NumCalls(r, "Handler") = 0
            /\ (Ended(r) /\ all) => NumCalls(r, "OnReqError") = Len(onReqErrorHandlers)
       ELSE /\ NumCalls(r, "Do") = 1
            /\ NumCalls(r, "OnReqError") = 0
            /\ IF r.Resp = "err"
               THEN /\ NumCalls(r, "OnResp") = 0
                    /\ NumCalls(r, "Handler") = 0
                    /\ (Ended(r) /\ all)
                          => NumCalls(r, "OnRespError") = Len(onRespErrorHandlers)
               ELSE NumCalls(r, "OnRespError") = 0

\* C13, with the handlers after one that panics left out: a request error
\* goes to the OnReqError handlers and a response error to the OnRespError
\* handlers, in registration order, each once, up to the end of the chain or
\* to the first handler that panics; after a request error nothing is
\* fetched; after either error no OnResp and no per-task handler runs, only
\* one of the two chains does, and the task is not submitted again.
ErrorsRoutedUnlessPanic ==
    \A p \in Tasks : \A r \in Outcomes(p) :
       Routed(r, FaultBy(r) \notin {"OnReqError", "OnRespError"})

\* C13 as stated: every handler of the error chain is called.
ErrorsRoutedToAll ==
    \A p \in Tasks : \A r \in Outcomes(p) : Routed(r, TRUE)

\* A task whose request carries an error: both OnReqError handlers were
\* called, in order, and handleTask is over.
ErrorsRoutedWitness ==
    \E p \in Tasks : \E r \in Outcomes(p) :
       /\ r.Req.Err
       /\ Len(onReqErrorHandlers) = 2
       /\ ChainCalls(r, "OnReqError") = <<(<<"OnReqError", 1>>), (<<"OnReqError", 2>>)>>
       /\ Ended(r)

(* ---------------------------- C14 -------------------------------------- *)
\* In the calls made for r's Context, every call of chain a comes before
\* every call of chain b.
AllBefore(r, a, b) ==
    \A m, n \in 1..Len(r.calls) :
       (r.calls[m][1] = a /\ r.calls[n][1] = b) => m < n

\* C14: in every run of a task, the fetch comes before every handler call,
\* the OnResp handlers are called in registration order, each at most once,
\* the task's own handlers likewise, and when one of the task's own handlers
\* is called every OnResp handler has been called before.
HandlersInOrder ==
    \A p \in Tasks : \A r \in Outcomes(p) :
       /\ CalledInOrder(r, "OnResp")
       /\ CalledInOrder(r, "Handler")
       /\ NumCalls(r, "OnResp") <= Len(onRespHandlers)
       /\ NumCalls(r, "Handler") <= Len(TaskHandlers)
       /\ AllBefore(r, "Do", "OnResp")
       /\ AllBefore(r, "Do", "Handler")
       /\ AllBefore(r, "OnResp", "Handler")
       /\ NumCalls(r, "Handler") > 0 => NumCalls(r, "OnResp") = Len(onRespHandlers)
       /\ NumCalls(r, "OnResp") > 0 => (NumCalls(r, "Do") = 1 /\ r.Resp = "ok")

\* A task that fetched and had its two OnResp handlers and then its own two
\* handlers called.
HandlersInOrderWitness ==
    \E p \in Tasks : \E r \in Outcomes(p) :
       /\ r.calls = <<(<<"Do", 1>>), (<<"OnResp", 1>>), (<<"OnResp", 2>>),
                      (<<"Handler", 1>>), (<<"Handler", 2>>)>>
       /\ r.pc = "ret"

(* ---------------------------- C15 -------------------------------------- *)
\* The access to an extension's private state that goroutine p is about to
\* make: the state, whether it is written, and whether the access is made
\* holding the extension's lock or as an atomic operation.
NoAccess == [state |-> "none", write |-> FALSE, guarded |-> TRUE]
Access(p) ==
    LET st == p.sub.st IN
    CASE st = "dedupLookup" -> [state |-> "CrawledHash", write |-> FALSE, guarded |-> TRUE]
      [] st = "dedupStore" -> [state |-> "CrawledHash", write |-> TRUE, guarded |-> TRUE]
      [] st = "capCheck" -> [state |-> "count", write |-> FALSE, guarded |-> FALSE]
      [] st = "capAdd" -> [state |-> "count", write |-> TRUE, guarded |-> TRUE]
      [] st = "robotsLookup" -> [state |-> "rs", write |-> FALSE, guarded |-> FALSE]
      [] st = "robotsStore" -> [state |-> "rs", write |-> TRUE, guarded |-> FALSE]
      [] st \in {"csvWrite", "csvFlush"} ->
            [state |-> "w", write |-> TRUE, guarded |-> TRUE]
      [] OTHER -> NoAccess

\* Two accesses to one state, one of them a write outside lock and atomic.
Conflict(a, b) ==
    /\ a.state = b.state
    /\ a.state # "none"
    /\ (a.write /\ ~a.guarded) \/ (b.write /\ ~b.guarded)

\* C15: no two goroutines are at once about to access the private state of
\* one extension (CrawledHash, rs, count, the csv writer) with one of them
\* writing it outside a held lock or an atomic operation.
NoUnsynchronizedAccess ==
    \A p, q \in Live :
       (p # q \/ procs[p] > 1) => ~Conflict(Access(p), Access(q))

(* ---------------------------- C16 -------------------------------------- *)
\* The hook answers nil exactly when it has a policy for the host, from the
\* cache or from a fetch that returned 200, and the path is disallowed; and
\* nothing is vetoed before a policy was cached.
RobotsVerdict ==
    LET last == rsHistory.last IN
    /\ last.source # "none" =>
          (last.nil <=> (last.source \in {"cached", "fetched"} /\ last.path = "closed"))
    /\ TotalVetoed > 0 => rs # {}

\* A host enters the cache by the store of a goroutine that fetched its
\* robots.txt with status 200, and stays there; and once it is cached and
\* no goroutine is between lookup and store for it, none gets there again:
\* no later submission for the host fetches.
RobotsCachedOnce ==
    \A h \in Hosts :
       /\ h \in rs => h \in rs'
       /\ (h \notin rs /\ h \in rs') =>
             \E p \in Fetching(h) : p.sub.st = "robotsStore"
       /\ (h \in rs /\ Fetching(h) = {}) => Fetching(h)' = {}

\* C16: with WithRobotsTxt registered, a task is vetoed exactly when a policy
\* is had for its host, cached or fetched now with status 200, and the policy
\* disallows the path; after a failed fetch the task passes.  The policy is
\* cached per host after a fetch with status 200, and once it is cached no
\* submission made from then on fetches robots.txt of that host.
RobotsFailOpenAndCached ==
    /\ []RobotsVerdict
    /\ [][RobotsCachedOnce]_vars

\* Three submissions for one host, one after the other: the first fetched
\* robots.txt, the third was answered from the cache and vetoed, two passed.
RobotsWitness ==
    /\ rsHistory.last = [source |-> "cached", path |-> "closed", nil |-> TRUE]
    /\ \E h \in Hosts : rs = {h}
    /\ TotalVetoed = 1
    /\ TotalDispatched = 2

\* A submission to a disallowed path passed after its robots.txt fetch failed.
RobotsFailOpenWitness ==
    /\ rsHistory.last = [source |-> "failed", path |-> "closed", nil |-> FALSE]
    /\ rs = {}
    /\ TotalDispatched = 1

(* ---------------------------- C17 -------------------------------------- *)
\* The calls of the named method made on the csv writer so far.
CsvCalls(method) == Len(SelectSeq(csvOut, LAMBDA c : c = method))

\* The items with a CsvItem payload whose row has not been written.
CsvUnwritten ==
    {p \in Items : CsvSaves(p.Data) /\ p.sub.st \in {"idle", "csvLock", "csvWrite"}}

\* Every way the item goroutine p may run from where WithCsvItemSaver's
\* handler returns: p is about to flush, or has not been called and its
\* payload is no CsvItem.
AfterCsv(p) ==
    IF p.sub.st = "csvFlush" THEN RunFrom(Return([p EXCEPT !.sub = NoSub]))
    ELSE IF p.sub.st = "idle" /\ ~CsvSaves(p.Data) THEN RunFrom(p)
    ELSE {}

\* C17: with WithCsvItemSaver registered first, the calls on the writer are
\* Write, Flush, Write, Flush, ...: every Write is followed by its Flush
\* before another item's Write, both made by the one goroutine that holds the
\* lock; every CsvItem emitted is written once, no other payload is; and the
\* handler returns the payload it was given, which the next OnItem handler
\* is called with.
CsvRowsWhole ==
    /\ \A n \in 1..Len(csvOut) : csvOut[n] = (IF n % 2 = 1 THEN "Write" ELSE "Flush")
    /\ Count({p \in Live : p.sub.st = "csvFlush"}) = Len(csvOut) % 2
    /\ Count({p \in Live : p.sub.st \in {"csvWrite", "csvFlush"}}) = csvLock
    /\ csvItems = CsvCalls("Write") + Count(CsvUnwritten)
    /\ \A p \in Items : \A r \in AfterCsv(p) :
          /\ r.results[1] = p.Data
          /\ r.given = <<p.Data, p.Data>>
          /\ r.calls[2] = <<"OnItem", 2>>

\* Two CsvItems were emitted and handled: two rows, each written and flushed,
\* and Wait has returned.
CsvWitness ==
    /\ csvOut = <<"Write", "Flush", "Write", "Flush">>
    /\ csvItems = 2
    /\ Waited

(* ---------------------------- C18 -------------------------------------- *)
\* The arguments Use is through, and those among them of the given shapes.
UseDone == SubSeq(useArgs.exts, 1, useArgs.k)
OfShapes(es, shapes) == SelectSeq(es, LAMBDA e : e.shape \in shapes)
Positions(es, shapes) == {n \in 1..Len(es) : es[n].shape \in shapes}

\* C18: Use goes through its arguments in order: every func(s *Spider) and
\* every Extension it is through has been called once with the spider, in
\* the order given; every middleware it is through, a goreq.Middleware or a
\* plain function of that signature, is registered on the client, in the
\* order given; and the only panic of Use is UnknownExt, at an argument of
\* no such shape.
UseDispatchesByShape ==
    /\ Chains = Use(NoChains, OfShapes(UseDone, {FuncSpider, "Extension"}))
    /\ \A n \in 1..Len(ClientUse) : \A m \in 1..(n - 1) : ClientUse[m] < ClientUse[n]
    /\ {ClientUse[n] : n \in 1..Len(ClientUse)}
          = Positions(UseDone, {"goreq.Middleware", MiddlewareFunc})
    /\ useFault \in {"none", "UnknownExt"}
    /\ useFault = "UnknownExt" =>
          fn.shape \notin {FuncSpider, "Extension", "goreq.Middleware", MiddlewareFunc}

(* ---------------------------- C19 -------------------------------------- *)
\* The place of WithMaxReqLimit's hook in the OnTask chain (0: not there).
CapAt ==
    IF \E j \in DOMAIN onTaskHandlers : onTaskHandlers[j].hook = "maxreq"
    THEN CHOOSE j \in DOMAIN onTaskHandlers : onTaskHandlers[j].hook = "maxreq"
    ELSE 0

\* The submissions vetoed by a hook registered after WithMaxReqLimit's.
VetoedAfterCap ==
    SumTo([h \in Hashes |->
             SumTo([j \in DOMAIN onTaskHandlers |->
                      IF j > CapAt THEN vetoed[h][j] ELSE 0], Len(onTaskHandlers))],
          NumHashes)

\* The submissions the cap hook admitted that are still in Context.AddTask.
PastCap == {p \in Submitting : p.sub.j > CapAt}

\* The counter is the number of submissions the cap hook admitted, whatever
\* became of them.
CapCountsAdmitted ==
    CapAt > 0 => count = TotalDispatched + VetoedAfterCap + Count(PastCap)

\* C19: the counter of WithMaxReqLimit is the number of submissions its hook
\* admitted: those dispatched, whether their task then failed or not, those
\* vetoed by a hook registered after it, and those still on their way;
\* and no step makes it smaller or adds more than one.
CapCounterOnlyGrows ==
    /\ []CapCountsAdmitted
    /\ [][count' \in {count, count + 1}]_vars

\* WithMaxReqLimit(max) then WithDepthLimit(1): the counter has reached max,
\* one task was dispatched, and one admitted by the cap hook was vetoed by
\* the depth hook.
CapWitness ==
    /\ CapAt = 1
    /\ Len(onTaskHandlers) = 2
    /\ count = HookMax
    /\ TotalDispatched = 1
    /\ VetoedAfterCap = 1
    /\ Waited

(* ---------------------------- C20 -------------------------------------- *)
\* The WaitGroup counter is never negative and is the number of goroutines
\* of addTask and addItem that have not ended.
WgBalanced == wg >= 0 /\ wg = Count(Units)

\* C20: the WaitGroup counter is balanced: it is never negative, every Add
\* of addTask and addItem is undone by the one Done of the goroutine started,
\* also when a handler of it panics, and a step changes it by one at most;
\* and unless a panic ends the process (a handler that does not return),
\* the counter comes back to zero and Wait returns.
WgBalancedAndWaitLive ==
    /\ []WgBalanced
    /\ [][wg' \in {wg - 1, wg, wg + 1}]_vars
    /\ <>(Waited \/ crashed)
    /\ (wg > 0) ~> (wg = 0 \/ crashed)

\* One task has finished and the last goroutine left is a task of which a
\* handler panics: it goes through the OnRecover handlers and returns.
WgWitness ==
    /\ wg = 1
    /\ Status.FinishedTask = 2
    /\ \E p \in Units : \E r \in Outcomes(p) :
          FaultBy(r) = "Handler" /\ Ended(r) /\ r.pc = "ret"

====
